---- MODULE Spec2Model ----
(***************************************************************************)
(* A model of the front-desk client's data layer:                          *)
(*   - EnhancedApiService (src/services/enhancedApi.ts): the TTL cache,    *)
(*     in-flight request de-duplication, optimistic doctor-status update,  *)
(*     invalidation and the periodic sweep;                                *)
(*   - ApiService (src/services/api.ts): retryRequest / shouldRetry with   *)
(*     the instance-wide retryCount, and the axios interceptors of both    *)
(*     ApiService definitions;                                             *)
(*   - updateQueueStatus of EnhancedApiService with its completePatient    *)
(*     fallback;                                                           *)
(*   - AuthProvider (src/contexts/AuthContext.tsx) over localStorage, and  *)
(*     ProtectedRoute (src/components/VirtualScroll.tsx).                  *)
(*   - ConnectionMonitor (the connection monitor module) and the SWR       *)
(*     mutation helpers of src/hooks/useApi.ts.                            *)
(* Each part has its specification: SpecCache, SpecRetry, SpecQueue,       *)
(* SpecAuth, SpecMonitor and SpecMutations.  SpecCacheTraced is SpecCache  *)
(* with the history of keys recorded for requests and updates in flight;   *)
(* SpecRetryFair is the API client under a page that keeps calling it,     *)
(* with every attempt and every backoff timer completing.                  *)
(* Time is Date.now() in milliseconds.  Cache keys are strings, modelled   *)
(* as sequences of tokens so that String.includes is a computed substring  *)
(* test.                                                                   *)
(***************************************************************************)
EXTENDS Integers, Sequences, FiniteSets, TLC

(***************************************************************************)
(* Bounds of the model (not program constants).                            *)
(***************************************************************************)
MaxTicks == 2
MaxRequests == 2
MaxUpdates == 2
MaxInFlight == 2
MaxCalls == 2
MaxStatusCalls == 1
MaxAttempts == 5
MaxStartTimers == 2
MaxMutations == 2

VARIABLES
  now,              \* Date.now()
  cache,            \* EnhancedApiService.cache: Map key -> CacheEntry
  pendingRequests,  \* EnhancedApiService.pendingRequests: Map key -> PendingRequest
  requests,         \* the underlying API calls of makeRequest in flight, by promise id
  updates,          \* the updateDoctorStatusOptimistic calls awaiting the server
  lastRead,         \* what the step just taken returned, when it was a cached read
  lastUpdate,       \* how the step just taken settled an optimistic update, when it did
  lastCacheOp,      \* the sweep, invalidation or failed request the step just taken was
  nextCleanup,      \* when the 60 s interval fires next
  orphaned,         \* keys whose pending entry was dropped while its request was in flight
  invalidated,      \* requests in flight whose key has been invalidated since their issue
  retryCount,       \* ApiService.retryCount (api.ts), one per instance
  isRedirecting,    \* ApiService.isRedirecting (api.ts)
  redirectTimers,   \* the setTimeout(..., 100) callbacks of the 401 handler not yet run
  accessToken,      \* localStorage.accessToken
  storedUser,       \* localStorage.user
  calls,            \* the calls made on the ApiService of api.ts
  lastRequest,      \* the request the step just taken handed to axios, when it sent one
  lastFailure,      \* the failed attempt the step just taken handled, when it did
  statusCalls,      \* the updateQueueStatus calls awaiting the server
  lastStatus,       \* what the step just taken did for an updateQueueStatus call
  user,             \* AuthProvider: the user state
  isLoading,        \* AuthProvider: the isLoading state
  authError,        \* AuthProvider: the error state
  mounted,          \* whether AuthProvider's mount effect has run
  authCall,         \* the login or signup call awaiting apiService
  lastAuth,         \* what the step just taken did in AuthProvider
  hasRedirectedRef, \* ProtectedRoute: hasRedirectedRef.current
  routeDeps,        \* ProtectedRoute: the dependencies its effect last ran with
  episodePushes,    \* pushes of /login since the user was last authenticated
  connectionStatus, \* ConnectionMonitor.status (lastChecked left out)
  isChecking,       \* ConnectionMonitor.isChecking
  isInitialized,    \* ConnectionMonitor.isInitialized
  checkInterval,    \* whether ConnectionMonitor.checkInterval holds a running interval
  startTimers,      \* the setTimeout(..., 1000) callbacks of startMonitoring not yet run
  navigatorOnLine,  \* navigator.onLine
  testRequests,     \* the apiService.testConnection() calls in flight
  lastCheck,        \* what the step just taken did in checkBackendConnection
  mutations,        \* the calls of the mutation helpers of useApi, by call id
  tracing           \* whether the run records what happens to the key of a request or
                    \* update in flight (invalidated, overtaken); fixed by Init

cacheVars == <<now, cache, pendingRequests, requests, updates, lastRead, lastUpdate,
               lastCacheOp, nextCleanup, orphaned, invalidated>>

retryVars == <<retryCount, isRedirecting, redirectTimers, accessToken, storedUser, calls,
               lastRequest, lastFailure>>

queueVars == <<statusCalls, lastStatus>>

authVars == <<user, isLoading, authError, mounted, authCall, lastAuth, hasRedirectedRef,
              routeDeps, episodePushes>>

monitorVars == <<connectionStatus, isChecking, isInitialized, checkInterval, startTimers,
                 navigatorOnLine, testRequests, lastCheck>>

hookVars == <<monitorVars, mutations>>

vars == <<cacheVars, retryVars, queueVars, authVars, hookVars, tracing>>

\* What the cache's operations, and the API client's, leave alone.
otherThanCache == <<retryVars, statusCalls, authVars, hookVars, tracing>>
otherThanRetry == <<cacheVars, queueVars, authVars, hookVars, tracing>>

(***************************************************************************)
(* Data values.  A response body is whatever the server sent: a Doctor, an *)
(* array (possibly empty), or null.                                        *)
(***************************************************************************)
NullData == [kind |-> "null"]
Doctor(id, status) == [kind |-> "doctor", id |-> id, status |-> status]
ListData(n) == [kind |-> "list", length |-> n]

\* JavaScript truthiness of a data value: objects and arrays (also the
\* empty array) are truthy, null is falsy.
Truthy(d) == d.kind # "null"

DoctorIds == {1}
\* The status the server holds for a doctor, and the status an update asks for.
ServerStatuses == {"available"}
StatusInputs == {"busy"}

(***************************************************************************)
(* Maps.                                                                   *)
(***************************************************************************)
EmptyMap == [k \in {} |-> NullData]
MapDelete(m, key) == [k \in (DOMAIN m) \ {key} |-> m[k]]
MapSet(m, key, v) == [k \in (DOMAIN m) \cup {key} |-> IF k = key THEN v ELSE m[k]]

(***************************************************************************)
(* cacheTTL                                                                *)
(***************************************************************************)
cacheTTL ==
  [doctors      |-> 5 * 60 * 1000,
   userProfile  |-> 10 * 60 * 1000,
   appointments |-> 2 * 60 * 1000,
   queue        |-> 30 * 1000,
   default      |-> 1 * 60 * 1000]

\* Time advances in steps of the shortest ttl.
TickMs == cacheTTL.queue

\* `${endpoint}${params ? JSON.stringify(params) : ''}`: the endpoint's
\* tokens followed by the serialised params (<<>> when there are none).
getCacheKey(endpoint, paramsJson) == endpoint \o paramsJson

\* String.prototype.includes
Includes(key, pattern) ==
  \E i \in 0..(Len(key) - Len(pattern)) :
     SubSeq(key, i + 1, i + Len(pattern)) = pattern

\* The cached reads: each one's key and ttl, as the method computes them.
\* JSON.stringify({doctorId: undefined}) is "{}".
ReadOps == {"getDoctors", "getAvailableDoctors", "getDoctor",
            "getAppointments", "getQueue", "getWaitingQueue"}

ReadKey(op) ==
  CASE op = "getDoctors"          -> getCacheKey(<<"doctors">>, <<>>)
    [] op = "getAvailableDoctors" -> getCacheKey(<<"doctors", "/", "available">>, <<>>)
    [] op = "getDoctor"           -> getCacheKey(<<"doctors", "/", "1">>, <<>>)
    [] op = "getAppointments"     -> getCacheKey(<<"appointments">>, <<>>)
    [] op = "getQueue"            -> getCacheKey(<<"queue">>, <<"{}">>)
    [] op = "getWaitingQueue"     -> getCacheKey(<<"queue", "/", "waiting">>, <<>>)

ReadTTL(op) ==
  CASE op \in {"getDoctors", "getAvailableDoctors", "getDoctor"} -> cacheTTL.doctors
    [] op = "getAppointments"                                    -> cacheTTL.appointments
    [] op \in {"getQueue", "getWaitingQueue"}                    -> cacheTTL.queue

\* What the server may answer to a read.
Responses(op) ==
  IF op = "getDoctor"
    THEN {Doctor(1, s) : s \in ServerStatuses} \cup {NullData}
    ELSE {ListData(0)}

\* The cached reads the model issues.
ReadInputs == {"getDoctor", "getWaitingQueue"}

Keys == {ReadKey(op) : op \in ReadOps}

(***************************************************************************)
(* isValidCache, getCachedData, setCachedData                              *)
(***************************************************************************)
isValidCacheLax(entry, t) == t - entry.timestamp <= entry.ttl

isValidCache(entry, t) == t - entry.timestamp < entry.ttl

\* getCachedData's return value ...
getCachedData(c, key, t) ==
  IF key \in DOMAIN c /\ isValidCache(c[key], t) THEN c[key].data ELSE NullData

\* ... and the cache it leaves: an expired entry is deleted.
getCachedDataCache(c, key, t) ==
  IF key \in DOMAIN c /\ ~isValidCache(c[key], t) THEN MapDelete(c, key) ELSE c

setCachedData(c, key, data, ttl, t) ==
  MapSet(c, key, [data |-> data, timestamp |-> t, ttl |-> ttl])

(***************************************************************************)
(* invalidateCache, clearCache, cleanupCache, cleanupPendingRequests       *)
(***************************************************************************)
\* invalidateCache deleting only the keys equal to a pattern.
invalidateCacheExact(c, patterns) ==
  LET hit == {k \in DOMAIN c : \E i \in 1..Len(patterns) : k = patterns[i]}
  IN  [k \in (DOMAIN c) \ hit |-> c[k]]

invalidateCache(c, patterns) ==
  LET hit == {k \in DOMAIN c : \E i \in 1..Len(patterns) : Includes(k, patterns[i])}
  IN  [k \in (DOMAIN c) \ hit |-> c[k]]

\* cleanupCache keeping the entries whose age has just reached their ttl.
cleanupCacheLax(c, t) ==
  [k \in {x \in DOMAIN c : isValidCacheLax(c[x], t)} |-> c[k]]

cleanupCache(c, t) ==
  [k \in {x \in DOMAIN c : isValidCache(c[x], t)} |-> c[k]]

PendingExpired(p, t) == t - p.timestamp > 30000

cleanupPendingRequests(p, t) ==
  [k \in {x \in DOMAIN p : ~PendingExpired(p[x], t)} |-> p[k]]

CleanupIntervalMs == 60000

InFlight(key) == {r \in DOMAIN requests : requests[r].key = key}

\* The server calls awaiting their response.
Outstanding == Cardinality(DOMAIN requests) + Cardinality(DOMAIN updates)

(***************************************************************************)
(* Initial state: a freshly constructed service.                           *)
(***************************************************************************)
NoRead == [source |-> "none"]

\* What a cached read of key returned, with what it found when it was called:
\* the key's entry (its age, ttl and data), the requests of the key in flight,
\* whether the key was orphaned, and whether the read issued an API call.
NoEntry == [present |-> FALSE]
Found(key) ==
  IF key \in DOMAIN cache
    THEN [present |-> TRUE, age |-> now - cache[key].timestamp,
          ttl |-> cache[key].ttl, data |-> cache[key].data]
    ELSE NoEntry

ReadResult(key, source, data, promise) ==
  [key |-> key, source |-> source, data |-> data, promise |-> promise,
   found |-> Found(key), inFlight |-> InFlight(key),
   wasOrphaned |-> key \in orphaned, issued |-> source = "network",
   afterRejection |-> lastCacheOp.op = "requestRejected" /\ lastCacheOp.key = key]

NoUpdate == [state |-> "none"]

NoCacheOp == [op |-> "none"]

NoStatus == [outcome |-> "none"]

\* The errors a call to the server may reject with.
ServerErrors == {"E500", "E404"}

InitCache ==
  /\ now = 0
  /\ cache = EmptyMap
  /\ pendingRequests = EmptyMap
  /\ requests = EmptyMap
  /\ updates = EmptyMap
  /\ lastRead = NoRead
  /\ lastUpdate = NoUpdate
  /\ lastCacheOp = NoCacheOp
  /\ nextCleanup = CleanupIntervalMs
  /\ orphaned = {}
  /\ invalidated = {}

(***************************************************************************)
(* makeRequest(key, requestFn, ttl), called by the cached read `op`.       *)
(***************************************************************************)
HasPendingNever(key) == FALSE

\* this.pendingRequests.get(key) is defined
HasPending(key) == key \in DOMAIN pendingRequests

\* The id of the promise a new request gets.
FreshId(m, max) == CHOOSE i \in 1..max : i \notin DOMAIN m /\ \A j \in 1..(i - 1) : j \in DOMAIN m

makeRequest(op) ==
  LET key        == ReadKey(op)
      ttl        == ReadTTL(op)
      cachedData == getCachedData(cache, key, now)
      c1         == getCachedDataCache(cache, key, now)
  IN  /\ cache' = c1
      /\ lastUpdate' = NoUpdate
      /\ lastStatus' = NoStatus
      /\ lastCacheOp' = NoCacheOp
      /\ UNCHANGED <<now, updates, nextCleanup, orphaned, invalidated, otherThanCache>>
      /\ IF Truthy(cachedData)
           THEN /\ lastRead' = ReadResult(key, "cache", cachedData, 0)
                /\ UNCHANGED <<pendingRequests, requests>>
           ELSE IF HasPending(key)
             THEN /\ lastRead' = ReadResult(key, "pending", NullData,
                                             pendingRequests[key].promise)
                  /\ UNCHANGED <<pendingRequests, requests>>
             ELSE /\ Cardinality(DOMAIN requests) < MaxRequests
                  /\ Outstanding < MaxInFlight
                  /\ LET id == FreshId(requests, MaxRequests)
                     IN  /\ requests' = MapSet(requests, id,
                                          [op |-> op, key |-> key, ttl |-> ttl])
                         /\ pendingRequests' = MapSet(pendingRequests, key,
                                          [promise |-> id, timestamp |-> now])
                         /\ lastRead' = ReadResult(key, "network", NullData, id)

\* The requests in flight whose key is removed when invalidateCache or
\* clearCache turns the cache from before into after, with those already so
\* (recorded in a traced run).
InvalidatedBy(before, after) ==
  IF tracing
    THEN invalidated \cup {r \in DOMAIN requests :
                             requests[r].key \in DOMAIN before \ DOMAIN after}
    ELSE invalidated

\* The orphaned keys that still have a request in flight once r has settled.
StillOrphaned(r) == {k \in orphaned : InFlight(k) \ {r} # {}}

\* requestFn() resolved: the .then handler of makeRequest.
requestResolved(r, data) ==
  /\ r \in DOMAIN requests
  /\ data \in Responses(requests[r].op)
  /\ cache' = setCachedData(cache, requests[r].key, data, requests[r].ttl, now)
  /\ pendingRequests' = MapDelete(pendingRequests, requests[r].key)
  /\ requests' = MapDelete(requests, r)
  /\ orphaned' = StillOrphaned(r)
  /\ invalidated' = invalidated \ {r}
  /\ lastRead' = NoRead
  /\ lastStatus' = NoStatus
  /\ lastCacheOp' = [op |-> "requestResolved", key |-> requests[r].key,
                      afterRemoval |-> r \in invalidated]
  /\ lastUpdate' = NoUpdate
  /\ UNCHANGED <<now, updates, nextCleanup, otherThanCache>>

catchPendingKept(p, key) == p

\* this.pendingRequests.delete(key) of the .catch handler
catchPending(p, key) == MapDelete(p, key)

\* requestFn() rejected with error e: the .catch handler of makeRequest, which
\* rethrows e to whoever holds the promise.  joined tells whether the step
\* before this one was a read that was handed this promise.
requestRejected(r, e) ==
  /\ r \in DOMAIN requests
  /\ pendingRequests' = catchPending(pendingRequests, requests[r].key)
  /\ requests' = MapDelete(requests, r)
  /\ orphaned' = StillOrphaned(r)
  /\ invalidated' = invalidated \ {r}
  /\ lastRead' = NoRead
  /\ lastStatus' = NoStatus
  /\ lastCacheOp' = [op |-> "requestRejected", key |-> requests[r].key, promise |-> r,
                      error |-> e, thrown |-> e,
                      joined |-> lastRead.source = "pending" /\ lastRead.promise = r]
  /\ lastUpdate' = NoUpdate
  /\ UNCHANGED <<now, cache, updates, nextCleanup, otherThanCache>>

(***************************************************************************)
(* updateDoctorStatusOptimistic(id, status)                                *)
(***************************************************************************)
\* The entry written before the server call.
OptimisticWrite(c, doctorKey, cachedDoctor, status, t) ==
  IF Truthy(cachedDoctor)
    THEN setCachedData(c, doctorKey, [cachedDoctor EXCEPT !.status = status],
                       cacheTTL.doctors, t)
    ELSE c

\* The synchronous part, up to the await.  hadValid and before record the
\* entry of doctors/{id} as it was when the call started.
updateDoctorStatusOptimistic(id, status) ==
  LET doctorKey           == getCacheKey(<<"doctors", "/", ToString(id)>>, <<>>)
      doctorsKey          == getCacheKey(<<"doctors">>, <<>>)
      availableDoctorsKey == getCacheKey(<<"doctors", "/", "available">>, <<>>)
      cachedDoctor        == getCachedData(cache, doctorKey, now)
      c1                  == getCachedDataCache(cache, doctorKey, now)
      c2                  == OptimisticWrite(c1, doctorKey, cachedDoctor, status, now)
      hadValid            == /\ doctorKey \in DOMAIN cache
                             /\ now - cache[doctorKey].timestamp < cache[doctorKey].ttl
                             /\ cache[doctorKey].data.kind = "doctor"
  IN  /\ Cardinality(DOMAIN updates) < MaxUpdates
      /\ Outstanding < MaxInFlight
      /\ cache' = invalidateCache(c2, <<doctorsKey, availableDoctorsKey>>)
      /\ invalidated' = InvalidatedBy(c2, invalidateCache(c2, <<doctorsKey,
                                                               availableDoctorsKey>>))
      /\ updates' = MapSet(updates, FreshId(updates, MaxUpdates),
                      [id |-> id, status |-> status, doctorKey |-> doctorKey,
                       cachedDoctor |-> cachedDoctor, hadValid |-> hadValid,
                       before |-> IF hadValid THEN cache[doctorKey].data ELSE NullData,
                       overtaken |-> NoEntry])
      /\ lastRead' = NoRead
      /\ lastStatus' = NoStatus
      /\ lastCacheOp' = NoCacheOp
      /\ lastUpdate' = NoUpdate
      /\ UNCHANGED <<now, pendingRequests, requests, nextCleanup, orphaned,
                     otherThanCache>>

\* The calls in flight once call u has stored its server response: those for
\* the same doctor remember the entry stored while they were in flight
\* (recorded in a traced run).
Overtaken(u) ==
  LET rest == MapDelete(updates, u)
  IN  [v \in DOMAIN rest |->
         IF tracing /\ rest[v].doctorKey = updates[u].doctorKey
           THEN [rest[v] EXCEPT !.overtaken =
                   [present |-> TRUE,
                    entry |-> setCachedData(EmptyMap, updates[u].doctorKey,
                                            Doctor(updates[u].id, updates[u].status),
                                            cacheTTL.doctors, now)[updates[u].doctorKey]]]
           ELSE rest[v]]

\* apiService.updateDoctorStatus resolved with the server's doctor.
updateResolved(u) ==
  /\ u \in DOMAIN updates
  /\ cache' = setCachedData(cache, updates[u].doctorKey,
                            Doctor(updates[u].id, updates[u].status),
                            cacheTTL.doctors, now)
  /\ updates' = Overtaken(u)
  /\ lastUpdate' = [state |-> "resolved", call |-> updates[u],
                    result |-> Doctor(updates[u].id, updates[u].status)]
  /\ lastRead' = NoRead
  /\ lastStatus' = NoStatus
  /\ lastCacheOp' = NoCacheOp
  /\ UNCHANGED <<now, pendingRequests, requests, nextCleanup, orphaned, invalidated,
                 otherThanCache>>

RollbackNone(c, doctorKey, cachedDoctor, t) == c

\* The cache after the catch block.
Rollback(c, doctorKey, cachedDoctor, t) ==
  IF Truthy(cachedDoctor)
    THEN setCachedData(c, doctorKey, cachedDoctor, cacheTTL.doctors, t)
    ELSE c

\* apiService.updateDoctorStatus rejected with error e, which the catch
\* block rethrows.
updateRejected(u, e) ==
  /\ u \in DOMAIN updates
  /\ cache' = Rollback(cache, updates[u].doctorKey, updates[u].cachedDoctor, now)
  /\ updates' = MapDelete(updates, u)
  /\ lastUpdate' = [state |-> "rejected", call |-> updates[u],
                    serverError |-> e, thrown |-> e,
                    overwrote |-> /\ updates[u].overtaken.present
                                  /\ updates[u].doctorKey \in DOMAIN cache
                                  /\ cache[updates[u].doctorKey] = updates[u].overtaken.entry
                                  /\ cache'[updates[u].doctorKey] # updates[u].overtaken.entry]
  /\ lastRead' = NoRead
  /\ lastStatus' = NoStatus
  /\ lastCacheOp' = NoCacheOp
  /\ UNCHANGED <<now, pendingRequests, requests, nextCleanup, orphaned, invalidated,
                 otherThanCache>>

(***************************************************************************)
(* The cache management operations and the interval.                       *)
(***************************************************************************)
PatternInputs ==
  {<<getCacheKey(<<"doctors">>, <<>>), getCacheKey(<<"doctors", "/", "available">>, <<>>)>>,
   <<<<"queue">>, <<"queue", "/", "waiting">>>>}

InvalidateCache(patterns) ==
  /\ cache' = invalidateCache(cache, patterns)
  /\ invalidated' = InvalidatedBy(cache, invalidateCache(cache, patterns))
  /\ lastRead' = NoRead
  /\ lastStatus' = NoStatus
  /\ lastCacheOp' = [op |-> "invalidateCache", patterns |-> patterns]
  /\ lastUpdate' = NoUpdate
  /\ UNCHANGED <<now, pendingRequests, requests, updates, nextCleanup, orphaned, otherThanCache>>

clearCache ==
  /\ cache' = EmptyMap
  /\ invalidated' = InvalidatedBy(cache, EmptyMap)
  /\ pendingRequests' = EmptyMap
  /\ orphaned' = orphaned \cup DOMAIN pendingRequests
  /\ lastRead' = NoRead
  /\ lastStatus' = NoStatus
  /\ lastCacheOp' = NoCacheOp
  /\ lastUpdate' = NoUpdate
  /\ UNCHANGED <<now, requests, updates, nextCleanup, otherThanCache>>

\* setInterval(() => { cleanupCache(); cleanupPendingRequests(); }, 60000)
CleanupInterval ==
  /\ now >= nextCleanup
  /\ cache' = cleanupCache(cache, now)
  /\ pendingRequests' = cleanupPendingRequests(pendingRequests, now)
  /\ orphaned' = orphaned \cup
                   {k \in DOMAIN pendingRequests : PendingExpired(pendingRequests[k], now)}
  /\ nextCleanup' = nextCleanup + CleanupIntervalMs
  /\ lastRead' = NoRead
  /\ lastStatus' = NoStatus
  /\ lastCacheOp' = [op |-> "cleanup"]
  /\ lastUpdate' = NoUpdate
  /\ UNCHANGED <<now, requests, updates, invalidated, otherThanCache>>

\* Time passes; a due interval callback runs before more time does.
Tick ==
  /\ now < MaxTicks * TickMs
  /\ now < nextCleanup
  /\ now' = now + TickMs
  /\ lastRead' = NoRead
  /\ lastStatus' = NoStatus
  /\ lastCacheOp' = NoCacheOp
  /\ lastUpdate' = NoUpdate
  /\ UNCHANGED <<cache, pendingRequests, requests, updates, nextCleanup, orphaned,
                 invalidated, otherThanCache>>

CacheNext ==
  \/ \E op \in ReadInputs : makeRequest(op)
  \/ \E r \in 1..MaxRequests : \E data \in UNION {Responses(op) : op \in ReadInputs} :
        requestResolved(r, data)
  \/ \E r \in 1..MaxRequests : \E e \in ServerErrors : requestRejected(r, e)
  \/ \E id \in DoctorIds : \E status \in StatusInputs :
        updateDoctorStatusOptimistic(id, status)
  \/ \E u \in 1..MaxUpdates : updateResolved(u)
  \/ \E u \in 1..MaxUpdates : \E e \in ServerErrors : updateRejected(u, e)
  \/ \E patterns \in PatternInputs : InvalidateCache(patterns)
  \/ clearCache
  \/ CleanupInterval
  \/ Tick

(***************************************************************************)
(* updateQueueStatus(id, status) of EnhancedApiService, with its fallback   *)
(* completePatientOptimistic(id).                                           *)
(***************************************************************************)
QueueItemIds == {1}
QueueStatusInputs == {"completed", "canceled"}

QueueItem(id, status) == [kind |-> "queueItem", id |-> id, status |-> status]

\* The key patterns both methods invalidate.
QueuePatterns == <<<<"queue">>, <<"queue", "/", "waiting">>>>

InitQueue ==
  /\ statusCalls = EmptyMap
  /\ lastStatus = NoStatus

\* The cache variables a step of updateQueueStatus leaves alone.
QueueFrame ==
  /\ lastRead' = NoRead
  /\ lastUpdate' = NoUpdate
  /\ lastCacheOp' = NoCacheOp
  /\ invalidated' = InvalidatedBy(cache, cache')
  /\ UNCHANGED <<now, pendingRequests, requests, updates, nextCleanup, orphaned, retryVars,
                 authVars, hookVars, tracing>>

\* The call up to its await: invalidate, then apiService.updateQueueStatus.
updateQueueStatus(id, status) ==
  /\ Cardinality(DOMAIN statusCalls) < MaxStatusCalls
  /\ cache' = invalidateCache(cache, QueuePatterns)
  /\ statusCalls' = MapSet(statusCalls, FreshId(statusCalls, MaxStatusCalls),
                       [id |-> id, status |-> status, phase |-> "status",
                        error |-> "none"])
  /\ lastStatus' = [outcome |-> "started", call |-> [id |-> id, status |-> status]]
  /\ QueueFrame

\* apiService.updateQueueStatus resolved: its result is returned.
statusResolved(c) ==
  /\ c \in DOMAIN statusCalls
  /\ statusCalls[c].phase = "status"
  /\ statusCalls' = MapDelete(statusCalls, c)
  /\ lastStatus' = [outcome |-> "returned", call |-> statusCalls[c],
                    result |-> QueueItem(statusCalls[c].id, statusCalls[c].status),
                    endpoint |-> "status"]
  /\ cache' = cache
  /\ QueueFrame

\* apiService.updateQueueStatus rejected with error: for 'completed' the catch
\* block calls completePatientOptimistic (which invalidates and awaits
\* apiService.completePatient), for another status it throws error.
statusRejected(c, error) ==
  /\ c \in DOMAIN statusCalls
  /\ statusCalls[c].phase = "status"
  /\ IF statusCalls[c].status = "completed"
       THEN /\ cache' = invalidateCache(cache, QueuePatterns)
            /\ statusCalls' = [statusCalls EXCEPT ![c].phase = "fallback",
                                                  ![c].error = error]
            /\ lastStatus' = [outcome |-> "fallback", call |-> statusCalls[c],
                              error |-> error]
       ELSE /\ cache' = cache
            /\ statusCalls' = MapDelete(statusCalls, c)
            /\ lastStatus' = [outcome |-> "thrown", call |-> statusCalls[c],
                              error |-> error, fallbackTried |-> FALSE,
                              completeError |-> "none", thrown |-> error]
  /\ QueueFrame

\* apiService.completePatient resolved: its result is returned.
completeResolved(c) ==
  /\ c \in DOMAIN statusCalls
  /\ statusCalls[c].phase = "fallback"
  /\ statusCalls' = MapDelete(statusCalls, c)
  /\ lastStatus' = [outcome |-> "returned", call |-> statusCalls[c],
                    result |-> QueueItem(statusCalls[c].id, "completed"),
                    endpoint |-> "complete"]
  /\ cache' = cache
  /\ QueueFrame

fallbackThrowsComplete(error, completeError) == completeError

\* catch (completeError) { ...; throw error; }
fallbackThrows(error, completeError) == error

\* apiService.completePatient rejected with completeError: the catch block of
\* completePatientOptimistic invalidates again and rethrows, and the catch
\* block of updateQueueStatus throws.
completeRejected(c, completeError) ==
  /\ c \in DOMAIN statusCalls
  /\ statusCalls[c].phase = "fallback"
  /\ cache' = invalidateCache(cache, QueuePatterns)
  /\ statusCalls' = MapDelete(statusCalls, c)
  /\ lastStatus' = [outcome |-> "thrown", call |-> statusCalls[c],
                    error |-> statusCalls[c].error, fallbackTried |-> TRUE,
                    completeError |-> completeError,
                    thrown |-> fallbackThrows(statusCalls[c].error, completeError)]
  /\ QueueFrame

\* The cached reads and the interval, with updateQueueStatus.
QueueNext ==
  \/ \E op \in ReadInputs : makeRequest(op)
  \/ \E r \in 1..MaxRequests : \E data \in UNION {Responses(op) : op \in ReadInputs} :
        requestResolved(r, data)
  \/ \E r \in 1..MaxRequests : \E e \in ServerErrors : requestRejected(r, e)
  \/ \E id \in QueueItemIds : \E status \in QueueStatusInputs : updateQueueStatus(id, status)
  \/ \E c \in 1..MaxStatusCalls : statusResolved(c)
  \/ \E c \in 1..MaxStatusCalls : \E error \in ServerErrors : statusRejected(c, error)
  \/ \E c \in 1..MaxStatusCalls : completeResolved(c)
  \/ \E c \in 1..MaxStatusCalls : \E error \in ServerErrors : completeRejected(c, error)
  \/ CleanupInterval
  \/ Tick

(***************************************************************************)
(* ApiService of src/services/api.ts: interceptors, retryRequest,          *)
(* shouldRetry, and the public methods.                                    *)
(***************************************************************************)
maxRetries == 3

NoToken == "null"
TokenInputs == {"t1"}

\* A localStorage item holding a string, and getItem's null.  Strings are
\* sequences of tokens.
NoItem == [present |-> FALSE, value |-> <<>>]
Item(string) == [present |-> TRUE, value |-> string]

\* The users the server knows, and JSON.stringify of one.
Users == {[id |-> 1], [id |-> 2]}
JSONStringifyEmpty(u) == <<"{", "}">>

JSONStringify(u) == <<"{", "id", ":", ToString(u.id), "}">>

\* The user a token was issued to.
UserOf(token) == IF token = "t1" THEN [id |-> 1] ELSE [id |-> 2]

\* The public methods of ApiService (api.ts) whose body is wrapped in
\* this.retryRequest, and those that call this.api directly.
WrappedOps == {"login", "signup", "getDoctors", "getAvailableDoctors",
               "getAppointments", "getTodayAppointments", "createAppointment",
               "updateAppointment", "deleteAppointment", "getQueue",
               "getTodayQueue", "checkHealth"}

UnwrappedOps == {"searchDoctors", "getDoctor", "createDoctor", "updateDoctor",
                 "deleteDoctor", "addToQueue", "updateQueueItem", "removeFromQueue"}

Wrapped(op) == op \in WrappedOps

\* The methods the model calls.
OpInputs == {"getDoctors", "createDoctor"}

\* An AxiosError: with a response (and its status), or without one (and its code).
HttpError(status) == [hasResponse |-> TRUE, status |-> status, code |-> "ERR_BAD_RESPONSE"]
NetError(code) == [hasResponse |-> FALSE, status |-> 0, code |-> code]
NoError == [hasResponse |-> FALSE, status |-> 0, code |-> "none"]

ErrorInputs ==
  {NetError("ECONNABORTED"), NetError("ERR_NETWORK"),
   HttpError(503), HttpError(500), HttpError(429), HttpError(408),
   HttpError(400), HttpError(401), HttpError(404)}

shouldRetryAnyError(error) == TRUE

shouldRetry(error) ==
  IF error.hasResponse
    THEN error.status >= 500 \/ error.status = 429 \/ error.status = 408
    ELSE error.code = "ECONNABORTED" \/ error.code = "ENOTFOUND" \/ ~error.hasResponse

Min(a, b) == IF a < b THEN a ELSE b

\* Math.min(1000 * Math.pow(2, this.retryCount), 10000)
Backoff(count) == Min(1000 * 2^count, 10000)

\* The request interceptor of api.ts returns the config as it got it; the one
\* of the ApiService defined in enhancedApi.ts adds the bearer token.
NoHeader == <<>>
Bearer(token) == <<"Bearer", token>>

requestInterceptor(authorization, token) == authorization

requestInterceptorBearer(authorization, token) ==
  IF token # NoToken THEN Bearer(token) ELSE authorization

NoRequest == [client |-> "none"]

Sent(client, op, authorization) ==
  [client |-> client, op |-> op, authorization |-> authorization, token |-> accessToken]

NoFailure == [call |-> 0]

IdleCall == [op |-> "none", state |-> "idle", attempts |-> 0, delay |-> 0, error |-> NoError]

\* new ApiService()
InitApiService ==
  /\ retryCount = 0
  /\ isRedirecting = FALSE
  /\ redirectTimers = 0
  /\ calls = [c \in 1..MaxCalls |-> IdleCall]
  /\ lastRequest = NoRequest
  /\ lastFailure = NoFailure

InitRetry ==
  /\ InitApiService
  /\ accessToken = NoToken
  /\ storedUser = NoItem

\* A public method is called: its first attempt goes out.
StartCall(c, op) ==
  /\ calls[c].state = "idle"
  /\ calls' = [calls EXCEPT ![c] = [IdleCall EXCEPT !.op = op, !.state = "attempting",
                                                     !.attempts = 1]]
  /\ lastRequest' = Sent("api.ts", op, requestInterceptor(NoHeader, accessToken))
  /\ lastFailure' = NoFailure
  /\ UNCHANGED <<retryCount, isRedirecting, redirectTimers, accessToken, storedUser, otherThanRetry>>

\* The response interceptor's success handler, then retryRequest's try block.
AttemptSucceeded(c) ==
  /\ calls[c].state = "attempting"
  /\ retryCount' = 0
  /\ calls' = [calls EXCEPT ![c].state = "resolved"]
  /\ lastRequest' = NoRequest
  /\ lastFailure' = NoFailure
  /\ UNCHANGED <<isRedirecting, redirectTimers, accessToken, storedUser, otherThanRetry>>

\* The 401 branch taken without looking at isRedirecting.
Handles401Always(error) == error.hasResponse /\ error.status = 401

\* The response interceptor's error handler (in a browser).
Handles401(error) == error.hasResponse /\ error.status = 401 /\ ~isRedirecting

\* Whether the catch block of retryRequest retries.
Retries(op, error) == Wrapped(op) /\ retryCount < maxRetries /\ shouldRetry(error)

\* The response interceptor's error handler, then retryRequest's catch block
\* (for a method that is not wrapped, the rejection reaches the caller as is).
AttemptFailed(c, error) ==
  /\ calls[c].state = "attempting"
  /\ IF Handles401(error)
       THEN /\ isRedirecting' = TRUE
            /\ accessToken' = NoToken
            /\ storedUser' = NoItem
            /\ redirectTimers' = redirectTimers + 1
       ELSE UNCHANGED <<isRedirecting, accessToken, storedUser, redirectTimers>>
  /\ IF Retries(calls[c].op, error)
       THEN /\ retryCount' = retryCount + 1
            /\ calls' = [calls EXCEPT ![c].state = "waiting",
                                      ![c].delay = Backoff(retryCount + 1)]
       ELSE /\ retryCount' = retryCount
            /\ calls' = [calls EXCEPT ![c].state = "rejected", ![c].error = error]
  /\ lastRequest' = NoRequest
  /\ lastFailure' = [call |-> c, error |-> error, retryCount |-> retryCount,
                     attempts |-> calls[c].attempts, isRedirecting |-> isRedirecting]
  /\ UNCHANGED otherThanRetry

\* The backoff timer fires: retryRequest(request) runs the request again.
\* The attempts of a call are counted up to MaxAttempts.
RetryTimerFired(c) ==
  /\ calls[c].state = "waiting"
  /\ calls' = [calls EXCEPT ![c].state = "attempting", ![c].delay = 0,
                            ![c].attempts = Min(calls[c].attempts + 1, MaxAttempts)]
  /\ lastRequest' = Sent("api.ts", calls[c].op, requestInterceptor(NoHeader, accessToken))
  /\ lastFailure' = NoFailure
  /\ UNCHANGED <<retryCount, isRedirecting, redirectTimers, accessToken, storedUser, otherThanRetry>>

\* The 401 handler's timeout: window.location.href = '/login'.
RedirectTimerFired ==
  /\ redirectTimers > 0
  /\ redirectTimers' = redirectTimers - 1
  /\ isRedirecting' = FALSE
  /\ lastRequest' = NoRequest
  /\ lastFailure' = NoFailure
  /\ UNCHANGED <<retryCount, accessToken, storedUser, calls, otherThanRetry>>

\* AuthContext stores the token and the user of a login or signup response.
StoreToken(token) ==
  /\ accessToken = NoToken
  /\ accessToken' = token
  /\ storedUser' = Item(JSONStringify(UserOf(token)))
  /\ lastRequest' = NoRequest
  /\ lastFailure' = NoFailure
  /\ UNCHANGED <<retryCount, isRedirecting, redirectTimers, calls, otherThanRetry>>

\* A method of the ApiService defined in enhancedApi.ts sends its request.
EnhancedApiRequest(op) ==
  /\ lastRequest' = Sent("enhancedApi.ts", op, requestInterceptorBearer(NoHeader, accessToken))
  /\ lastFailure' = NoFailure
  /\ UNCHANGED <<retryCount, isRedirecting, redirectTimers, accessToken, storedUser, calls, otherThanRetry>>

RetryNext ==
  \/ \E c \in 1..MaxCalls : \E op \in OpInputs : StartCall(c, op)
  \/ \E c \in 1..MaxCalls : AttemptSucceeded(c)
  \/ \E c \in 1..MaxCalls : \E error \in ErrorInputs : AttemptFailed(c, error)
  \/ \E c \in 1..MaxCalls : RetryTimerFired(c)
  \/ RedirectTimerFired
  \/ \E token \in TokenInputs : StoreToken(token)
  \/ \E op \in OpInputs : EnhancedApiRequest(op)

\* The caller has got the result or the error of its call and the page goes
\* on to make other calls: the record of the settled call is dropped.
CallSettled(c) ==
  /\ calls[c].state \in {"resolved", "rejected"}
  /\ calls' = [calls EXCEPT ![c] = IdleCall]
  /\ lastRequest' = NoRequest
  /\ lastFailure' = NoFailure
  /\ UNCHANGED <<retryCount, isRedirecting, redirectTimers, accessToken, storedUser,
                 otherThanRetry>>

\* The calls of a page that keeps calling the client.
RetryForeverNext ==
  \/ \E c \in 1..MaxCalls : \E op \in OpInputs : StartCall(c, op)
  \/ \E c \in 1..MaxCalls : AttemptSucceeded(c)
  \/ \E c \in 1..MaxCalls : \E error \in ErrorInputs : AttemptFailed(c, error)
  \/ \E c \in 1..MaxCalls : RetryTimerFired(c)
  \/ RedirectTimerFired
  \/ \E c \in 1..MaxCalls : CallSettled(c)

\* Every attempt completes, with a response or an error, and every backoff
\* timer fires.
AttemptCompletes(c) ==
  AttemptSucceeded(c) \/ \E error \in ErrorInputs : AttemptFailed(c, error)

RetryFairness ==
  \A c \in 1..MaxCalls :
     /\ WF_vars(AttemptCompletes(c))
     /\ WF_vars(RetryTimerFired(c))

(***************************************************************************)
(* AuthProvider (src/contexts/AuthContext.tsx): the mount effect, login,    *)
(* signup, logout, clearError.  apiService.login and apiService.signup go   *)
(* through the interceptors of api.ts.                                      *)
(***************************************************************************)
\* The user state when nobody is signed in, and JSON.parse("null").
NullUser == [id |-> 0]

\* const isAuthenticated = !!user
isAuthenticated == user # NullUser

\* The error state when there is none.
NoMessage == [present |-> FALSE, value |-> <<>>]

\* JSON.parse accepting every string.
JSONParseAny(string) == [ok |-> TRUE, value |-> NullUser]

\* JSON.parse: the user a string serialises, null for "null", or a SyntaxError.
JSONParse(string) ==
  IF \E u \in Users : JSONStringify(u) = string
    THEN [ok |-> TRUE, value |-> CHOOSE u \in Users : JSONStringify(u) = string]
    ELSE IF string = <<"null">>
      THEN [ok |-> TRUE, value |-> NullUser]
      ELSE [ok |-> FALSE, value |-> NullUser]

\* What localStorage may hold when the page loads: nothing, a session, a
\* token without user, a user without token, a user entry that is not JSON,
\* and a user entry that is the JSON null.
StorageInputs ==
  {[accessToken |-> NoToken, user |-> NoItem],
   [accessToken |-> "t1", user |-> Item(JSONStringify(UserOf("t1")))],
   [accessToken |-> "t1", user |-> NoItem],
   [accessToken |-> NoToken, user |-> Item(JSONStringify(UserOf("t1")))],
   [accessToken |-> "t1", user |-> Item(<<"{", "id">>)],
   [accessToken |-> "t1", user |-> Item(<<"null">>)]}

\* A string's truthiness: the empty string and null are falsy.
TruthyItem(item) == item.present /\ item.value # <<>>

\* The failures of apiService.login / signup: the AxiosError, and
\* error.response.data.message when the response has one.
AuthFailures ==
  {[error |-> HttpError(401), message |-> Item(<<"Invalid", "credentials">>)],
   [error |-> HttpError(400), message |-> NoItem]}

AuthKinds == {"login", "signup"}

\* The tokens the server issues on login or signup.
AuthTokenInputs == {"t1", "t2"}

removeItemKept(item) == item

\* localStorage.removeItem of the user entry.
removeItem(item) == NoItem


DefaultMessage(kind) ==
  IF kind = "login" THEN <<"Login", "failed.", "Please", "check", "your", "credentials.">>
                    ELSE <<"Signup", "failed.", "Please", "try", "again.">>

\* The errorMessage of the catch block.
errorMessage(kind, failure) ==
  IF failure.error.hasResponse /\ failure.message.present
    THEN failure.message.value
    ELSE DefaultMessage(kind)

NoCall == [kind |-> "none"]
NoAuth == [outcome |-> "none"]

\* No effect of ProtectedRoute has run yet.
NoDeps == [ran |-> FALSE]
Deps == [ran |-> TRUE, isAuthenticated |-> isAuthenticated, isLoading |-> isLoading]

\* useState(null), useState(true), useState(null); useRef(false)
InitAuthProvider ==
  /\ user = NullUser
  /\ isLoading = TRUE
  /\ authError = NoMessage
  /\ mounted = FALSE
  /\ authCall = NoCall
  /\ lastAuth = NoAuth
  /\ hasRedirectedRef = FALSE
  /\ routeDeps = NoDeps
  /\ episodePushes = 0

\* React runs the effects of a render before it handles the next event.
EffectsFlushed == routeDeps = Deps

\* The pushes of the episode once the user state is u.
EpisodeAfter(u) == IF u # NullUser THEN 0 ELSE episodePushes

\* What the steps of AuthProvider leave alone.
AuthFrame ==
  /\ UNCHANGED <<hasRedirectedRef, routeDeps, cacheVars, queueVars, calls, hookVars,
                 tracing>>
  /\ lastRequest' = NoRequest
  /\ lastFailure' = NoFailure

\* The mount effect.
Mount ==
  /\ ~mounted
  /\ EffectsFlushed
  /\ mounted' = TRUE
  /\ LET token    == accessToken
         userData == storedUser
         parsed   == JSONParse(userData.value)
     IN  /\ IF token # NoToken /\ TruthyItem(userData)
              THEN IF parsed.ok
                     THEN /\ user' = parsed.value
                          /\ UNCHANGED <<accessToken, storedUser>>
                     ELSE /\ accessToken' = NoToken
                          /\ storedUser' = removeItem(storedUser)
                          /\ user' = user
              ELSE UNCHANGED <<user, accessToken, storedUser>>
         /\ lastAuth' = [outcome |-> "mounted", token |-> token, userData |-> userData]
  /\ isLoading' = FALSE
  /\ episodePushes' = EpisodeAfter(user')
  /\ UNCHANGED <<authError, authCall, retryCount, isRedirecting, redirectTimers>>
  /\ AuthFrame

\* login / signup up to the await; the form's submit button is disabled while
\* isLoading.  before is the session as it was when the call was made.
authStart(kind) ==
  /\ ~isLoading
  /\ EffectsFlushed
  /\ authCall = NoCall
  /\ isLoading' = TRUE
  /\ authError' = NoMessage
  /\ authCall' = [kind |-> kind,
                  before |-> [accessToken |-> accessToken, storedUser |-> storedUser,
                              user |-> user]]
  /\ lastAuth' = NoAuth
  /\ UNCHANGED <<user, mounted, episodePushes, accessToken, storedUser, retryCount,
                 isRedirecting, redirectTimers>>
  /\ AuthFrame

\* apiService.login / signup resolved with {accessToken: token, user}.
authResolved(token) ==
  /\ authCall # NoCall
  /\ EffectsFlushed
  /\ retryCount' = 0
  /\ accessToken' = token
  /\ storedUser' = Item(JSONStringify(UserOf(token)))
  /\ user' = UserOf(token)
  /\ isLoading' = FALSE
  /\ authCall' = NoCall
  /\ lastAuth' = [outcome |-> "resolved", call |-> authCall, token |-> token,
                  user |-> UserOf(token)]
  /\ episodePushes' = EpisodeAfter(user')
  /\ UNCHANGED <<authError, mounted, isRedirecting, redirectTimers>>
  /\ AuthFrame

\* apiService.login / signup rejected: the response interceptor's error
\* handler first, then the catch and finally blocks.  retryRequest rethrows
\* the error at once when it does not retry.
authRejected(failure) ==
  /\ authCall # NoCall
  /\ EffectsFlushed
  /\ ~Retries(authCall.kind, failure.error)
  /\ IF Handles401(failure.error)
       THEN /\ isRedirecting' = TRUE
            /\ accessToken' = NoToken
            /\ storedUser' = NoItem
            /\ redirectTimers' = redirectTimers + 1
       ELSE UNCHANGED <<isRedirecting, accessToken, storedUser, redirectTimers>>
  /\ authError' = Item(errorMessage(authCall.kind, failure))
  /\ isLoading' = FALSE
  /\ authCall' = NoCall
  /\ lastAuth' = [outcome |-> "rejected", call |-> authCall, failure |-> failure,
                  thrown |-> errorMessage(authCall.kind, failure)]
  /\ UNCHANGED <<user, mounted, episodePushes, retryCount>>
  /\ AuthFrame

logout ==
  /\ EffectsFlushed
  /\ accessToken' = NoToken
  /\ storedUser' = removeItem(storedUser)
  /\ user' = NullUser
  /\ authError' = NoMessage
  /\ lastAuth' = [outcome |-> "loggedOut",
                  before |-> [accessToken |-> accessToken, storedUser |-> storedUser,
                              user |-> user, authError |-> authError]]
  /\ UNCHANGED <<isLoading, mounted, authCall, episodePushes, retryCount, isRedirecting,
                 redirectTimers>>
  /\ AuthFrame

clearError ==
  /\ EffectsFlushed
  /\ authError # NoMessage
  /\ authError' = NoMessage
  /\ lastAuth' = NoAuth
  /\ UNCHANGED <<user, isLoading, mounted, authCall, episodePushes, accessToken, storedUser,
                 retryCount, isRedirecting, redirectTimers>>
  /\ AuthFrame

(***************************************************************************)
(* ProtectedRoute (src/components/VirtualScroll.tsx)                        *)
(***************************************************************************)
\* What ProtectedRoute returns.
Rendered ==
  IF isLoading THEN "spinner"
  ELSE IF ~isAuthenticated THEN "null"
  ELSE "children"

\* The useEffect's first condition without the look at hasRedirectedRef.
ShouldPushAlways == ~isLoading /\ ~isAuthenticated

\* if (!isLoading && !isAuthenticated && !hasRedirectedRef.current)
ShouldPush == ~isLoading /\ ~isAuthenticated /\ ~hasRedirectedRef

\* The useEffect with dependencies [isAuthenticated, isLoading]: it runs after
\* the first render and after every render that changed one of them.
RouteEffect ==
  /\ routeDeps # Deps
  /\ routeDeps' = Deps
  /\ IF ShouldPush
       THEN /\ hasRedirectedRef' = TRUE
            /\ episodePushes' = episodePushes + 1
       ELSE /\ hasRedirectedRef' = (IF isAuthenticated THEN FALSE ELSE hasRedirectedRef)
            /\ episodePushes' = episodePushes
  /\ lastAuth' = NoAuth
  /\ UNCHANGED <<user, isLoading, authError, mounted, authCall, cacheVars, retryVars,
                 queueVars, hookVars, tracing>>

AuthNext ==
  \/ Mount
  \/ \E kind \in AuthKinds : authStart(kind)
  \/ \E token \in AuthTokenInputs : authResolved(token)
  \/ \E failure \in AuthFailures : authRejected(failure)
  \/ logout
  \/ clearError
  \/ RouteEffect
  \/ RedirectTimerFired

(***************************************************************************)
(* ConnectionMonitor: one instance per page.  Its checks are started by    *)
(* the 1 s timeout and the interval of startMonitoring and by the window's *)
(* online event.  apiService.testConnection (api.ts) requests /health and  *)
(* catches every error, so its promise only ever resolves.                 *)
(***************************************************************************)
\* What the /health request of testConnection can come to: a response with
\* a 2xx status, or an error (no response, a timeout, any other status).
HealthOutcomes == {"200", "204", "error"}

\* testConnection: true for status 200, false otherwise and in its catch.
testConnection(outcome) == outcome = "200"

NoErrorText == "undefined"
NotResponding == "Backend server is not responding"

\* A boolean a call returned, or "pending" for a promise not yet settled.
Returned(b) == IF b THEN "true" ELSE "false"

NoCheck == [op |-> "none"]

\* The constructor, run in a browser whose navigator.onLine is online.
ConnectionMonitor(online) ==
  /\ navigatorOnLine = online
  /\ connectionStatus = [isOnline |-> navigatorOnLine, isBackendAvailable |-> FALSE,
               error |-> NoErrorText]
  /\ isChecking = FALSE
  /\ isInitialized = FALSE
  /\ checkInterval = FALSE
  /\ startTimers = 0
  /\ testRequests = 0
  /\ lastCheck = NoCheck

\* What the steps of ConnectionMonitor leave alone.
MonitorFrame ==
  /\ lastRead' = NoRead
  /\ lastUpdate' = NoUpdate
  /\ lastCacheOp' = NoCacheOp
  /\ lastStatus' = NoStatus
  /\ lastRequest' = NoRequest
  /\ lastFailure' = NoFailure
  /\ UNCHANGED <<now, cache, pendingRequests, requests, updates, nextCleanup, orphaned,
                 invalidated, tracing,
                 retryCount, isRedirecting, redirectTimers, accessToken, storedUser, calls,
                 statusCalls, authVars, mutations>>

\* The guard never seeing a check in flight.
AlreadyCheckingNever == FALSE

\* The guard of checkBackendConnection (the page runs in a browser, so
\* window is defined).
AlreadyChecking == isChecking

\* checkBackendConnection up to its await, called with the status st the
\* caller has just written.
checkBackendConnection(st) ==
  IF AlreadyChecking
    THEN /\ lastCheck' = [op |-> "check", wasChecking |-> isChecking, issued |-> FALSE,
                          available |-> st.isBackendAvailable,
                          returned |-> Returned(st.isBackendAvailable)]
         /\ connectionStatus' = st
         /\ UNCHANGED <<isChecking, testRequests>>
    ELSE /\ isChecking' = TRUE
         /\ testRequests' = testRequests + 1
         /\ lastCheck' = [op |-> "check", wasChecking |-> isChecking, issued |-> TRUE,
                          available |-> st.isBackendAvailable, returned |-> "pending"]
         /\ connectionStatus' = st

\* startMonitoring: the interval is replaced, one more 1 s timeout is set.
startMonitoring ==
  /\ startTimers < MaxStartTimers
  /\ startTimers' = startTimers + 1
  /\ checkInterval' = TRUE
  /\ lastCheck' = NoCheck
  /\ UNCHANGED <<connectionStatus, isChecking, isInitialized, navigatorOnLine,
                 testRequests>>
  /\ MonitorFrame

\* The callback of the 1 s timeout.
StartTimerFired ==
  /\ startTimers > 0
  /\ startTimers' = startTimers - 1
  /\ checkBackendConnection(connectionStatus)
  /\ isInitialized' = TRUE
  /\ UNCHANGED <<checkInterval, navigatorOnLine>>
  /\ MonitorFrame

\* The callback of the interval.
IntervalFired ==
  /\ checkInterval
  /\ checkBackendConnection(connectionStatus)
  /\ UNCHANGED <<isInitialized, checkInterval, startTimers, navigatorOnLine>>
  /\ MonitorFrame

stopMonitoring ==
  /\ checkInterval
  /\ checkInterval' = FALSE
  /\ lastCheck' = NoCheck
  /\ UNCHANGED <<connectionStatus, isChecking, isInitialized, startTimers, navigatorOnLine,
                 testRequests>>
  /\ MonitorFrame

\* The window's online or offline event.
handleOnlineStatusChange(online) ==
  /\ online # navigatorOnLine
  /\ navigatorOnLine' = online
  /\ IF online
       THEN checkBackendConnection([connectionStatus EXCEPT !.isOnline = TRUE])
       ELSE /\ connectionStatus' = [connectionStatus EXCEPT !.isOnline = FALSE,
                                                             !.isBackendAvailable = FALSE]
            /\ lastCheck' = NoCheck
            /\ UNCHANGED <<isChecking, testRequests>>
  /\ UNCHANGED <<isInitialized, checkInterval, startTimers>>
  /\ MonitorFrame

\* testConnection settles: the rest of the try block, then finally.
checkSettled(outcome) ==
  /\ testRequests > 0
  /\ testRequests' = testRequests - 1
  /\ LET isAvailable == testConnection(outcome)
     IN  /\ connectionStatus' = [isOnline |-> navigatorOnLine,
                                 isBackendAvailable |-> isAvailable,
                       error |-> IF isAvailable THEN NoErrorText ELSE NotResponding]
         /\ lastCheck' = [op |-> "settled", result |-> Returned(isAvailable)]
  /\ isChecking' = FALSE
  /\ UNCHANGED <<isInitialized, checkInterval, startTimers, navigatorOnLine>>
  /\ MonitorFrame

MonitorNext ==
  \/ startMonitoring
  \/ StartTimerFired
  \/ IntervalFired
  \/ stopMonitoring
  \/ \E online \in BOOLEAN : handleOnlineStatusChange(online)
  \/ \E outcome \in HealthOutcomes : checkSettled(outcome)

(***************************************************************************)
(* The mutation helpers of useApi.ts.  Each awaits one apiService call,    *)
(* then awaits mutate(primary key), then sets a timeout per secondary key  *)
(* whose callback calls mutate, and returns.  mutate(key) of SWR starts    *)
(* the revalidation of the key and resolves when it is over (SWR catches   *)
(* the fetcher's errors, so the promise does not reject).                  *)
(***************************************************************************)
MutationIds == {1}

\* SWR key `doctors/${id}`.
DoctorKey(id) == <<"doctors", "/", ToString(id)>>

Timer(key, delay) == [key |-> key, delay |-> delay]

\* Per helper: the apiService method, the key revalidated first, the keys
\* revalidated by timeout, and whether the helper returns the API result.
Helpers ==
  [ doctorCreate |->
      [api |-> "createDoctor", primary |-> [id \in MutationIds |-> <<"doctors">>],
       secondary |-> <<Timer(<<"doctors", "/", "available">>, 100)>>, returnsResult |-> TRUE],
    doctorUpdate |->
      [api |-> "updateDoctor", primary |-> [id \in MutationIds |-> DoctorKey(id)],
       secondary |-> <<Timer(<<"doctors">>, 100),
                       Timer(<<"doctors", "/", "available">>, 200)>>,
       returnsResult |-> TRUE],
    doctorDelete |->
      [api |-> "deleteDoctor", primary |-> [id \in MutationIds |-> <<"doctors">>],
       secondary |-> <<Timer(<<"doctors", "/", "available">>, 100)>>, returnsResult |-> FALSE],
    queueAdd |->
      [api |-> "addToQueue", primary |-> [id \in MutationIds |-> <<"queue", "/", "today">>],
       secondary |-> <<Timer(<<"queue">>, 100)>>, returnsResult |-> TRUE],
    queueUpdateStatus |->
      [api |-> "updateQueueItem",
       primary |-> [id \in MutationIds |-> <<"queue", "/", "today">>],
       secondary |-> <<Timer(<<"queue">>, 100)>>, returnsResult |-> TRUE],
    queueRemove |->
      [api |-> "removeFromQueue",
       primary |-> [id \in MutationIds |-> <<"queue", "/", "today">>],
       secondary |-> <<Timer(<<"queue">>, 100)>>, returnsResult |-> FALSE],
    appointmentCreate |->
      [api |-> "createAppointment",
       primary |-> [id \in MutationIds |-> <<"appointments", "/", "today">>],
       secondary |-> <<Timer(<<"appointments">>, 100)>>, returnsResult |-> TRUE],
    appointmentUpdate |->
      [api |-> "updateAppointment",
       primary |-> [id \in MutationIds |-> <<"appointments", "/", "today">>],
       secondary |-> <<Timer(<<"appointments">>, 100)>>, returnsResult |-> TRUE],
    appointmentDelete |->
      [api |-> "deleteAppointment",
       primary |-> [id \in MutationIds |-> <<"appointments", "/", "today">>],
       secondary |-> <<Timer(<<"appointments">>, 100)>>, returnsResult |-> FALSE] ]

PrimaryKey(m) == Helpers[m.helper].primary[m.id]

\* Secondary timeouts set as soon as the API call has resolved.
SecondaryTimersEarly(helper, point) ==
  IF point = "apiResolved" THEN Helpers[helper].secondary ELSE <<>>

\* The timeouts a helper sets at a point of its body: none when the API
\* call resolves, the secondary keys' once mutate(primary) has resolved.
SecondaryTimers(helper, point) ==
  IF point = "primaryRevalidated" THEN Helpers[helper].secondary ELSE <<>>

InitMutations == mutations = EmptyMap

\* What the steps of the mutation helpers leave alone.
MutationsFrame ==
  /\ lastRead' = NoRead
  /\ lastUpdate' = NoUpdate
  /\ lastCacheOp' = NoCacheOp
  /\ lastStatus' = NoStatus
  /\ lastRequest' = NoRequest
  /\ lastFailure' = NoFailure
  /\ lastCheck' = NoCheck
  /\ UNCHANGED <<now, cache, pendingRequests, requests, updates, nextCleanup, orphaned,
                 invalidated, tracing,
                 retryCount, isRedirecting, redirectTimers, accessToken, storedUser, calls,
                 statusCalls, authVars, connectionStatus, isChecking, isInitialized,
                 checkInterval,
                 startTimers, navigatorOnLine, testRequests>>

\* A helper is called: it runs up to the await of its apiService call.
mutationCalled(helper, id) ==
  /\ Cardinality(DOMAIN mutations) < MaxMutations
  /\ LET c == Cardinality(DOMAIN mutations) + 1
     IN  mutations' = MapSet(mutations, c,
                             [helper |-> helper, id |-> id, phase |-> "api",
                              log |-> <<[ev |-> "api", what |-> <<Helpers[helper].api>>]>>,
                              timers |-> <<>>])
  /\ MutationsFrame

\* The apiService call resolves: the helper calls mutate(primary key) and
\* awaits it.
mutationApiResolved(c) ==
  /\ c \in DOMAIN mutations
  /\ mutations[c].phase = "api"
  /\ LET m == mutations[c]
     IN  mutations' = MapSet(mutations, c,
           [m EXCEPT !.phase = "primary",
                     !.log = m.log \o <<[ev |-> "apiOk", what |-> <<"result">>],
                                        [ev |-> "mutate", what |-> PrimaryKey(m)]>>,
                     !.timers = SecondaryTimers(m.helper, "apiResolved")])
  /\ MutationsFrame

\* The apiService call rejects: the catch block logs and rethrows.
mutationApiRejected(c, error) ==
  /\ c \in DOMAIN mutations
  /\ mutations[c].phase = "api"
  /\ LET m == mutations[c]
     IN  mutations' = MapSet(mutations, c,
           [m EXCEPT !.phase = "threw",
                     !.log = m.log \o <<[ev |-> "apiFailed", what |-> <<error>>],
                                        [ev |-> "threw", what |-> <<error>>]>>])
  /\ MutationsFrame

\* mutate(primary key) resolves: the helper sets its timeouts and returns.
mutationPrimaryRevalidated(c) ==
  /\ c \in DOMAIN mutations
  /\ mutations[c].phase = "primary"
  /\ LET m == mutations[c]
     IN  mutations' = MapSet(mutations, c,
           [m EXCEPT !.phase = "returned",
                     !.log = m.log \o
                       <<[ev |-> "revalidated", what |-> PrimaryKey(m)],
                         [ev |-> "returned",
                          what |-> IF Helpers[m.helper].returnsResult
                                     THEN <<"result">> ELSE <<"undefined">>]>>,
                     !.timers = m.timers \o SecondaryTimers(m.helper, "primaryRevalidated")])
  /\ MutationsFrame

\* The earliest timeout of a call runs: mutate(secondary key).  The timeouts
\* of one call are set at the same instant and listed by growing delay.
mutationTimerFired(c) ==
  /\ c \in DOMAIN mutations
  /\ mutations[c].timers # <<>>
  /\ LET m == mutations[c]
     IN  mutations' = MapSet(mutations, c,
           [m EXCEPT !.log = m.log \o <<[ev |-> "mutate", what |-> Head(m.timers).key]>>,
                     !.timers = Tail(m.timers)])
  /\ MutationsFrame

MutationsNext ==
  \/ \E helper \in DOMAIN Helpers, id \in MutationIds : mutationCalled(helper, id)
  \/ \E c \in 1..MaxMutations : mutationApiResolved(c)
  \/ \E c \in 1..MaxMutations, error \in ServerErrors : mutationApiRejected(c, error)
  \/ \E c \in 1..MaxMutations : mutationPrimaryRevalidated(c)
  \/ \E c \in 1..MaxMutations : mutationTimerFired(c)

\* A page load: localStorage holds what earlier visits left there.
InitAuth ==
  /\ InitCache
  /\ InitQueue
  /\ InitApiService
  /\ InitAuthProvider
  /\ ConnectionMonitor(TRUE)
  /\ InitMutations
  /\ tracing = FALSE
  /\ \E stored \in StorageInputs :
        /\ accessToken = stored.accessToken
        /\ storedUser = stored.user

InitServices ==
  /\ InitCache /\ InitRetry /\ InitQueue /\ InitAuthProvider
  /\ ConnectionMonitor(TRUE) /\ InitMutations

Init == InitServices /\ tracing = FALSE

\* The same, in a run that records invalidated and overtaken.
InitTraced == InitServices /\ tracing = TRUE

SpecCache == Init /\ [][CacheNext]_vars

SpecCacheTraced == InitTraced /\ [][CacheNext]_vars

SpecRetry == Init /\ [][RetryNext]_vars

SpecQueue == Init /\ [][QueueNext]_vars

SpecRetryFair == Init /\ [][RetryForeverNext]_vars /\ RetryFairness

SpecAuth == InitAuth /\ [][AuthNext]_vars

\* A page load with the browser online or offline.
InitMonitorPage ==
  /\ InitCache /\ InitRetry /\ InitQueue /\ InitAuthProvider /\ InitMutations
  /\ tracing = FALSE
  /\ \E online \in BOOLEAN : ConnectionMonitor(online)

SpecMonitor == InitMonitorPage /\ [][MonitorNext]_vars

SpecMutations == Init /\ [][MutationsNext]_vars

(***************************************************************************)
(* Properties of the cache (SpecCache).  lastRead and lastUpdate describe   *)
(* the step just taken, so a state predicate over them speaks of the state  *)
(* right after a cached read, or right after an update settled.             *)
(***************************************************************************)
\* The read found an entry of its key whose age was below its ttl.
FoundValid == lastRead.found.present /\ lastRead.found.age < lastRead.found.ttl

\* The read found an entry of its key whose age had reached its ttl.
FoundExpired == lastRead.found.present /\ lastRead.found.age >= lastRead.found.ttl

\* The read returned the promise of a request of its key that was in flight,
\* and issued no call.
Deduplicated ==
  /\ ~lastRead.issued
  /\ lastRead.source = "pending"
  /\ lastRead.promise \in lastRead.inFlight

\* C1, as stated: for a key without a valid cache entry, a cached read made
\* while a request of that key is in flight returns the in-flight promise and
\* issues no second call, whatever ran in between.
C1_DedupWhateverRan ==
  (lastRead.source # "none" /\ ~FoundValid /\ lastRead.inFlight # {})
     => Deduplicated

\* C1, amended: the same, provided neither clearCache nor the sweep has dropped
\* the key's pending entry since the key last had no request in flight.
C1_DedupUnlessDropped ==
  (/\ lastRead.source # "none"
   /\ ~FoundValid
   /\ lastRead.inFlight # {}
   /\ ~lastRead.wasOrphaned)
     => Deduplicated

\* A read of a key without a valid entry joined the request in flight for it.
C1_Witness ==
  /\ lastRead.source = "pending"
  /\ lastRead.promise \in lastRead.inFlight
  /\ ~lastRead.wasOrphaned
  /\ ~FoundValid

\* The ttl the claim gives for each kind of key.
ClaimedTTL(key) ==
  IF Includes(key, <<"doctors">>) THEN 5 * 60000
  ELSE IF Includes(key, <<"appointments">>) THEN 2 * 60000
  ELSE IF Includes(key, <<"queue">>) THEN 30 * 1000
  ELSE 60 * 1000

\* C2: every entry carries the ttl of its kind; a cached read returns an
\* entry's data only when the entry's age is below its ttl; an entry found
\* expired is deleted and the read is served by a new or an in-flight request.
C2_NoStaleRead ==
  /\ \A k \in DOMAIN cache : cache[k].ttl = ClaimedTTL(k)
  /\ lastRead.source = "cache"
       => /\ FoundValid
          /\ lastRead.data = lastRead.found.data
  /\ (lastRead.source # "none" /\ FoundExpired)
       => /\ lastRead.key \notin DOMAIN cache
          /\ lastRead.source \in {"pending", "network"}

\* A read found its entry at age = ttl and went to the network.
C2_Witness ==
  /\ lastRead.source = "network"
  /\ FoundExpired
  /\ lastRead.found.age = lastRead.found.ttl

\* C3, as stated: while an optimistic update that started on a valid entry
\* awaits the server, the entry of doctors/{id} holds the doctor with the new
\* status.
C3_OptimisticVisible ==
  \A u \in DOMAIN updates :
     updates[u].hadValid =>
        /\ updates[u].doctorKey \in DOMAIN cache
        /\ cache[updates[u].doctorKey].data =
              [updates[u].before EXCEPT !.status = updates[u].status]

C7_CacheHit ==
  (lastRead.source # "none" /\ FoundValid)
     => /\ lastRead.source = "cache"
        /\ lastRead.data = lastRead.found.data
        /\ ~lastRead.issued

\* C11: the sweep removes exactly the cache entries whose age is >= their ttl;
\* every entry still valid keeps its data, timestamp and ttl; no pending
\* request younger than 30 s is removed.
C11_ExpirySweep ==
  [][lastCacheOp'.op = "cleanup" =>
       /\ DOMAIN cache' =
            {k \in DOMAIN cache : ~(now - cache[k].timestamp >= cache[k].ttl)}
       /\ \A k \in DOMAIN cache' : cache'[k] = cache[k]
       /\ \A k \in DOMAIN pendingRequests :
             now - pendingRequests[k].timestamp < 30000
                => k \in DOMAIN pendingRequests' /\ pendingRequests'[k] = pendingRequests[k]
    ]_vars

\* A sweep has just run that left a valid entry in the cache and a pending
\* request younger than 30 s in place.
C11_Witness ==
  /\ lastCacheOp.op = "cleanup"
  /\ \E k \in DOMAIN cache : now - cache[k].timestamp < cache[k].ttl
  /\ \E k \in DOMAIN pendingRequests : now - pendingRequests[k].timestamp < 30000

\* key = prefix + pattern + suffix, for some prefix and suffix.
HasSubstring(key, pattern) ==
  \E i \in 0..Len(key) : \E j \in 1..(Len(key) + 1) :
     SubSeq(key, 1, i) \o pattern \o SubSeq(key, j, Len(key)) = key

\* C18: invalidateCache(patterns) removes exactly the entries whose key
\* contains one of the patterns as a substring ('queue' also removes
\* queue/waiting and queue{...}, 'doctors' also removes doctors/available and
\* doctors/{id}); every other entry and the whole pendingRequests map are left
\* unchanged.
C18_InvalidateFrame ==
  [][lastCacheOp'.op = "invalidateCache" =>
       LET patterns == lastCacheOp'.patterns
           hit(k)   == \E i \in 1..Len(patterns) : HasSubstring(k, patterns[i])
       IN  /\ DOMAIN cache' = {k \in DOMAIN cache : ~hit(k)}
           /\ \A k \in DOMAIN cache' : cache'[k] = cache[k]
           /\ pendingRequests' = pendingRequests
           /\ patterns[1] = <<"queue">> =>
                 /\ <<"queue", "/", "waiting">> \notin DOMAIN cache'
                 /\ <<"queue", "{}">> \notin DOMAIN cache'
           /\ patterns[1] = <<"doctors">> =>
                 /\ <<"doctors", "/", "available">> \notin DOMAIN cache'
                 /\ <<"doctors", "/", "1">> \notin DOMAIN cache'
    ]_vars

\* invalidateCache(['queue', 'queue/waiting']) has just run with requests
\* pending, and left the entry of doctors/1 in the cache.
C18_Witness ==
  /\ lastCacheOp.op = "invalidateCache"
  /\ lastCacheOp.patterns[1] = <<"queue">>
  /\ <<"doctors", "/", "1">> \in DOMAIN cache
  /\ pendingRequests # EmptyMap

\* What the rejection of a request does, in C15's words: the key's pending
\* entry is removed, the cache is left as it was, and the error thrown to the
\* holders of the promise is the request's.
RejectionStep ==
  lastCacheOp'.op = "requestRejected" =>
     /\ lastCacheOp'.key \notin DOMAIN pendingRequests'
     /\ cache' = cache
     /\ lastCacheOp'.thrown = lastCacheOp'.error

C19_StatusFallback ==
  /\ lastStatus.outcome = "started"
       => \A k \in DOMAIN cache : ~HasSubstring(k, <<"queue">>)
  /\ lastStatus.outcome = "fallback"
       => /\ lastStatus.call.status = "completed"
          /\ \E c \in DOMAIN statusCalls : statusCalls[c].phase = "fallback"
  /\ (lastStatus.outcome = "returned" /\ lastStatus.endpoint = "complete")
       => /\ lastStatus.call.status = "completed"
          /\ lastStatus.call.error # "none"
          /\ lastStatus.result = QueueItem(lastStatus.call.id, "completed")
  /\ lastStatus.outcome = "thrown"
       => /\ lastStatus.thrown = lastStatus.error
          /\ lastStatus.fallbackTried <=> lastStatus.call.status = "completed"

\* The fallback of a failed 'completed' update failed too, with another error
\* than the status call's.
C19_Witness ==
  /\ lastStatus.outcome = "thrown"
  /\ lastStatus.fallbackTried
  /\ lastStatus.completeError # lastStatus.error

(***************************************************************************)
(* Properties of the API client (SpecRetry).                               *)
(***************************************************************************)
\* A transient failure, in the claims' words: no HTTP response, or status
\* >= 500, 429 or 408.
Transient(error) ==
  ~error.hasResponse \/ error.status >= 500 \/ error.status \in {429, 408}

\* C5, as stated: a call wrapped in retryRequest makes at most maxRetries + 1
\* attempts, also with other calls in flight on the same instance.
C5_BoundedRetry ==
  \A c \in 1..MaxCalls :
     Wrapped(calls[c].op) => calls[c].attempts <= maxRetries + 1

\* C6, as stated: a request sent while a token is stored carries
\* Authorization: Bearer <token>; one sent without a stored token carries no
\* Authorization header.
C6_BearerToken ==
  lastRequest.client # "none" =>
     lastRequest.authorization =
        (IF lastRequest.token # NoToken THEN Bearer(lastRequest.token) ELSE NoHeader)

\* C8: a failed attempt of a wrapped call is followed by a retry only when
\* the error is transient; any other error is rethrown at once: no further
\* attempt, no delay, retryCount unchanged.
C8_RetryOnlyTransient ==
  (lastFailure.call # 0 /\ Wrapped(calls[lastFailure.call].op))
     => LET call == calls[lastFailure.call]
        IN  /\ call.state = "waiting" => Transient(lastFailure.error)
            /\ ~Transient(lastFailure.error)
                 => /\ call.state = "rejected"
                    /\ call.error = lastFailure.error
                    /\ call.attempts = lastFailure.attempts
                    /\ call.delay = 0
                    /\ retryCount = lastFailure.retryCount

\* A wrapped call was rejected by a non-transient error on its first attempt,
\* with retries still available.
C8_Witness ==
  /\ lastFailure.call # 0
  /\ Wrapped(calls[lastFailure.call].op)
  /\ calls[lastFailure.call].state = "rejected"
  /\ ~Transient(lastFailure.error)
  /\ calls[lastFailure.call].attempts = 1
  /\ retryCount < maxRetries

\* C9, as stated: the delays before a call's 1st, 2nd and 3rd retry are 2000,
\* 4000 and 8000 ms.
C9_DelaySequence ==
  \A c \in 1..MaxCalls :
     (calls[c].state = "waiting" /\ calls[c].attempts <= 3)
        => calls[c].delay = <<2000, 4000, 8000>>[calls[c].attempts]

\* C10, as stated: no operation of the client rejects on its first transient
\* failure.
C10_RetryCoverage ==
  (/\ lastFailure.call # 0
   /\ lastFailure.attempts = 1
   /\ Transient(lastFailure.error))
     => calls[lastFailure.call].state = "waiting"

\* C17: a 401 response makes the interceptor remove accessToken and user and
\* schedule one redirect; while that redirect is pending further 401 responses
\* schedule no other; isRedirecting is false again once the redirect has fired;
\* every 401 is rejected to its caller.
C17_RedirectOnce ==
  /\ redirectTimers <= 1
  /\ isRedirecting <=> redirectTimers = 1
  /\ (lastFailure.call # 0 /\ lastFailure.error = HttpError(401))
       => /\ calls[lastFailure.call].state = "rejected"
          /\ calls[lastFailure.call].error = lastFailure.error
          /\ ~lastFailure.isRedirecting
               => /\ accessToken = NoToken
                  /\ storedUser = NoItem
                  /\ isRedirecting
                  /\ redirectTimers = 1
          /\ lastFailure.isRedirecting
               => /\ isRedirecting
                  /\ redirectTimers = 1

\* A second request got its 401 while the redirect of the first was pending.
C17_Witness ==
  /\ lastFailure.call # 0
  /\ lastFailure.error = HttpError(401)
  /\ lastFailure.isRedirecting
  /\ \E c \in 1..MaxCalls : c # lastFailure.call /\ calls[c].error = HttpError(401)

(***************************************************************************)
(* Properties of AuthProvider and ProtectedRoute (SpecAuth).  lastAuth      *)
(* describes the step just taken.                                           *)
(***************************************************************************)
\* C12: when apiService.login / signup resolves, localStorage.accessToken is
\* the returned token, localStorage.user is the serialised returned user, the
\* context user is the returned user (isAuthenticated is true), error is null
\* and isLoading is false.
C12_SessionEstablished ==
  lastAuth.outcome = "resolved" =>
     /\ accessToken = lastAuth.token
     /\ storedUser.present
     /\ JSONParse(storedUser.value) = [ok |-> TRUE, value |-> lastAuth.user]
     /\ user = lastAuth.user
     /\ isAuthenticated
     /\ authError = NoMessage
     /\ ~isLoading

\* A login or signup resolved for another user than the one signed in before.
C12_Witness ==
  /\ lastAuth.outcome = "resolved"
  /\ lastAuth.call.before.user # NullUser
  /\ lastAuth.call.before.user # user

\* C13: right after logout(), from any state, localStorage holds neither
\* accessToken nor user, the context user is null, isAuthenticated is false
\* and error is null.
C13_LogoutEndsSession ==
  lastAuth.outcome = "loggedOut" =>
     /\ accessToken = NoToken
     /\ ~storedUser.present
     /\ user = NullUser
     /\ ~isAuthenticated
     /\ authError = NoMessage

\* A signed-in user with an error showing logged out.
C13_Witness ==
  /\ lastAuth.outcome = "loggedOut"
  /\ lastAuth.before.user # NullUser
  /\ lastAuth.before.storedUser.present
  /\ lastAuth.before.authError.present

\* C14: ProtectedRoute renders its children only when isLoading is false and
\* isAuthenticated is true; once loading has finished with the user
\* unauthenticated it has pushed /login exactly once in the episode;
\* hasRedirectedRef is set by the push and cleared when the user is
\* authenticated.
C14_RouteProtection ==
  /\ Rendered = "children" => (~isLoading /\ user # NullUser)
  /\ episodePushes <= 1
  /\ (EffectsFlushed /\ ~isLoading /\ user = NullUser)
       => (episodePushes = 1 /\ hasRedirectedRef)
  /\ (EffectsFlushed /\ user # NullUser) => ~hasRedirectedRef

\* The effect ran again in an episode in which it had pushed already (after a
\* failed login), and pushed nothing.
C14_Witness ==
  /\ EffectsFlushed
  /\ ~isLoading
  /\ user = NullUser
  /\ authError.present
  /\ episodePushes = 1

\* C16, as stated: when apiService.login / signup rejects, accessToken, user
\* in localStorage and the context user are as before the call, error is a
\* non-empty message, isLoading is false and the Error thrown carries that
\* message.
C16_SessionUntouched ==
  lastAuth.outcome = "rejected" =>
     /\ accessToken = lastAuth.call.before.accessToken
     /\ storedUser = lastAuth.call.before.storedUser
     /\ user = lastAuth.call.before.user
     /\ authError.present
     /\ authError.value # <<>>
     /\ ~isLoading
     /\ lastAuth.thrown = authError.value

\* A string that is valid JSON, among those localStorage.user may hold.
ParsesAsJSON(string) ==
  string \in {<<"{", "id", ":", "1", "}">>, <<"{", "id", ":", "2", "}">>, <<"null">>}

\* C20: on mount the user is restored only if accessToken and user are both
\* present and user parses as JSON; if user does not parse, both entries are
\* removed and the context user stays null; isLoading is false once the effect has run.
C20_SessionRestore ==
  lastAuth.outcome = "mounted" =>
     LET token    == lastAuth.token
         userData == lastAuth.userData
     IN  /\ ~isLoading
         /\ user # NullUser
              => /\ token # NoToken
                 /\ userData.present
                 /\ ParsesAsJSON(userData.value)
                 /\ JSONStringify(user) = userData.value
         /\ (token # NoToken /\ userData.present /\ ~ParsesAsJSON(userData.value))
              => /\ accessToken = NoToken
                 /\ ~storedUser.present
                 /\ user = NullUser

\* The provider mounted over a user entry that is not JSON.
C20_Witness ==
  /\ lastAuth.outcome = "mounted"
  /\ lastAuth.token # NoToken
  /\ lastAuth.userData.present
  /\ ~ParsesAsJSON(lastAuth.userData.value)

(***************************************************************************)
(* Properties of ConnectionMonitor (SpecMonitor).                          *)
(***************************************************************************)
\* C21: at most one testConnection request is in flight; a call of
\* checkBackendConnection made while isChecking is true issues no request and
\* returns the current isBackendAvailable; a call made while it is false
\* issues one; and when the check in flight settles, whatever the outcome of
\* the request, isChecking is false again.
C21_SingleCheck ==
  /\ testRequests <= 1
  /\ isChecking <=> testRequests = 1
  /\ (lastCheck.op = "check" /\ lastCheck.wasChecking)
       => /\ ~lastCheck.issued
          /\ lastCheck.returned = Returned(connectionStatus.isBackendAvailable)
  /\ (lastCheck.op = "check" /\ ~lastCheck.wasChecking)
       => /\ lastCheck.issued
          /\ isChecking
  /\ lastCheck.op = "settled" => ~isChecking

\* The interval or the online event called checkBackendConnection while a
\* check was in flight, with the backend known to be available.
C21_Witness ==
  /\ lastCheck.op = "check"
  /\ lastCheck.wasChecking
  /\ ~lastCheck.issued
  /\ lastCheck.returned = "true"
  /\ testRequests = 1

(***************************************************************************)
(* Properties of the mutation helpers (SpecMutations).  The log of a call  *)
(* lists what the call did, in order, each event with a string (a key, an *)
(* error, a result) as a sequence of tokens.                               *)
(***************************************************************************)
\* The positions of a log holding event e.
Positions(log, e) == {i \in DOMAIN log : log[i] = e}

\* Event e happened before position i of the log.
Before(log, e, i) == \E j \in Positions(log, e) : j < i

Mutates(log) == {i \in DOMAIN log : log[i].ev = "mutate"}

\* C22: in every call of a mutation helper, no mutate happens before the API
\* call has succeeded; the revalidation of the primary key is over before
\* the helper returns and before mutate is called for a secondary key, and
\* secondary keys follow in the order of their delays; if the API call
\* fails, the call revalidates nothing and throws the error it got.
C22_StaggeredRevalidation ==
  \A c \in DOMAIN mutations :
     LET m       == mutations[c]
         log     == m.log
         primary == PrimaryKey(m)
         apiOk   == [ev |-> "apiOk", what |-> <<"result">>]
         done    == [ev |-> "revalidated", what |-> primary]
     IN  /\ \A i \in Mutates(log) :
               /\ Before(log, apiOk, i)
               /\ log[i].what # primary => Before(log, done, i)
         /\ \A i \in DOMAIN log : log[i].ev = "returned" => Before(log, done, i)
         /\ \A i, j \in Mutates(log) :
               (i < j /\ log[i].what # primary)
                  => \E a, b \in DOMAIN Helpers[m.helper].secondary :
                        /\ a < b
                        /\ Helpers[m.helper].secondary[a].key = log[i].what
                        /\ Helpers[m.helper].secondary[b].key = log[j].what
         /\ \A e \in ServerErrors :
               Positions(log, [ev |-> "apiFailed", what |-> <<e>>]) # {}
                  => /\ Mutates(log) = {}
                     /\ m.phase = "threw"
                     /\ log[Len(log)] = [ev |-> "threw", what |-> <<e>>]
         /\ m.phase = "threw" => \E e \in ServerErrors :
                                    Positions(log, [ev |-> "apiFailed", what |-> <<e>>]) # {}

\* One call has revalidated its primary key, returned and run both its
\* timeouts while another call's API call failed.
C22_Witness ==
  \E c, d \in DOMAIN mutations :
     /\ mutations[c].phase = "returned"
     /\ mutations[c].timers = <<>>
     /\ Cardinality(Mutates(mutations[c].log)) = 3
     /\ mutations[d].phase = "threw"

(***************************************************************************)
(* Termination of retryRequest (SpecRetryFair).                            *)
(***************************************************************************)
\* C23, as stated: if every attempt completes and every backoff timer fires,
\* each call wrapped in retryRequest eventually resolves or rejects, also
\* while other calls of the same instance keep succeeding or failing.
C23_RetryTerminates ==
  \A c \in 1..MaxCalls :
     (Wrapped(calls[c].op) /\ calls[c].state \in {"attempting", "waiting"})
        ~> (calls[c].state \in {"resolved", "rejected"})

(***************************************************************************)
(* Invalidation against reads in flight (SpecCacheTraced).                 *)
(***************************************************************************)
\* C24, as stated: once invalidateCache or clearCache has removed a key, no
\* response of a request issued before the removal is written to the cache
\* under that key.
C24_NoStaleRepopulation ==
  lastCacheOp.op = "requestResolved" => ~lastCacheOp.afterRemoval

(***************************************************************************)
(* Overlapping optimistic updates (SpecCacheTraced).                       *)
(***************************************************************************)
\* C25, as stated: the rollback of a failed updateDoctorStatusOptimistic call
\* never replaces the server response that another call for the same doctor
\* stored while the failed call was in flight, so that once the overlapping
\* calls have settled the entry holds the response of the last call that
\* succeeded.
C25_UpdatesConverge ==
  lastUpdate.state = "rejected" => ~lastUpdate.overwrote

====
